---- MODULE Spec2Model ----
(***************************************************************************)
(* Model of src/main.py, the carrier lookup service: the module-level load *)
(* of data1.csv, data2.csv and data3.csv into the global DataFrame df, and *)
(* the three request handlers get_carrier_by_dot, root and health_check.   *)
(***************************************************************************)
EXTENDS Integers, Sequences, FiniteSets, TLC

VARIABLES files, pc, file, dataframes, df, stdout, responses

vars == <<files, pc, file, dataframes, df, stdout, responses>>

(***************************************************************************)
(* Bounds and input domains                                                *)
(***************************************************************************)

\* most data rows a generated CSV file holds
MaxRows == 2

\* csv_files = ['data1.csv', 'data2.csv', 'data3.csv']
NumFiles == 3

\* DOT numbers that occur in the files and in the queries
Dots == {101, 202}

(***************************************************************************)
(* Values: a pandas cell or a Python value is a tagged record.             *)
(*   nan   float('nan'), an absent cell                                    *)
(*   int   an integer n                                                    *)
(*   float the float n.0                                                   *)
(*   str   the string s                                                    *)
(*   None  Python's None                                                   *)
(***************************************************************************)

NaN == [t |-> "nan", n |-> 0, s |-> ""]

None == [t |-> "None", n |-> 0, s |-> ""]

I(n) == [t |-> "int", n |-> n, s |-> ""]

F(n) == [t |-> "float", n |-> n, s |-> ""]

S(s) == [t |-> "str", n |-> 0, s |-> s]

\* the numbers whose decimal text occurs as a string in the model
Numbers == {5551234, 5554321, 5559876} \cup Dots \cup {12, 7}

\* the strings Python's float() and int() accept, with their value
NumericText == {<<ToString(n), n>> : n \in Numbers}

(***************************************************************************)
(* Results of a Python expression: a value, or a raised exception.         *)
(***************************************************************************)

NoExc == [type |-> "", status |-> 0, detail |-> ""]

Ok(v) == [raised |-> FALSE, value |-> v, exc |-> NoExc]

Raise(e) == [raised |-> TRUE, value |-> None, exc |-> e]

ValueError(msg) == [type |-> "ValueError", status |-> 0, detail |-> msg]

KeyError(key) == [type |-> "KeyError", status |-> 0, detail |-> key]

HTTPException(status_code, detail) ==
    [type |-> "HTTPException", status |-> status_code, detail |-> detail]

\* str(e): the exception's message; repr of the key for a KeyError;
\* "<status_code>: <detail>" for an HTTPException (Starlette's __str__)
StrExc(e) ==
    CASE e.type = "HTTPException" -> ToString(e.status) \o ": " \o e.detail
      [] e.type = "KeyError" -> "'" \o e.detail \o "'"
      [] OTHER -> e.detail

\* pd.isna(value)
isna(value) == value.t \in {"nan", "None"}

\* float(value)
float(value) ==
    CASE value.t = "int" -> Ok(F(value.n))
      [] value.t = "float" -> Ok(value)
      [] value.t = "nan" -> Ok(value)
      [] value.t = "str" ->
           IF \E p \in NumericText : p[1] = value.s
           THEN Ok(F((CHOOSE p \in NumericText : p[1] = value.s)[2]))
           ELSE Raise(ValueError("could not convert string to float: '"
                                 \o value.s \o "'"))
      [] OTHER -> Raise([type |-> "TypeError", status |-> 0,
                         detail |-> "float() argument must be a string or a real number, not 'NoneType'"])

\* int(value)
int(value) ==
    CASE value.t = "int" -> Ok(value)
      [] value.t = "float" -> Ok(I(value.n))
      [] value.t = "nan" -> Raise(ValueError("cannot convert float NaN to integer"))
      [] value.t = "str" ->
           IF \E p \in NumericText : p[1] = value.s
           THEN Ok(I((CHOOSE p \in NumericText : p[1] = value.s)[2]))
           ELSE Raise(ValueError("invalid literal for int() with base 10: '"
                                 \o value.s \o "'"))
      [] OTHER -> Raise([type |-> "TypeError", status |-> 0,
                         detail |-> "int() argument must be a string, a bytes-like object or a real number, not 'NoneType'"])

\* str(value)
str(value) ==
    CASE value.t = "int" -> ToString(value.n)
      [] value.t = "float" -> ToString(value.n) \o ".0"
      [] value.t = "str" -> value.s
      [] value.t = "nan" -> "nan"
      [] OTHER -> "None"

\* clean_phone_number without the int(): str(float(value))
clean_phone_number_no_int(value) ==
    IF isna(value) THEN Ok(None)
    ELSE LET f == float(value) IN
         IF f.raised THEN f ELSE Ok(S(str(f.value)))

\* clean_phone_number: None for NaN, else str(int(float(value)))
clean_phone_number(value) ==
    IF isna(value) THEN Ok(None)
    ELSE LET f == float(value) IN
         IF f.raised THEN f
         ELSE LET i == int(f.value) IN
              IF i.raised THEN i ELSE Ok(S(str(i.value)))

(***************************************************************************)
(* CarrierResponse, the response model of GET /carrier                     *)
(***************************************************************************)

CarrierResponse ==
    [DOT_NUMBER |-> "int", MC_NUMBER |-> "Optional[str]", COMPANY_NAME |-> "str",
     PHY_STREET |-> "str", PHY_CITY |-> "str", PHY_STATE |-> "str",
     PHY_ZIP |-> "str", PHONE |-> "str", CELL_PHONE |-> "Optional[str]",
     TRUCK_UNITS |-> "int", POWER_UNITS |-> "int"]

CarrierColumns == DOMAIN CarrierResponse

\* whether value v is accepted for a field annotated ann. The values that
\* reach a str field in this model are strings and None, and None is refused.
FieldAccepts(ann, v) ==
    CASE ann = "int" -> v.t = "int"
      [] ann = "str" -> v.t = "str"
      [] ann = "Optional[str]" -> v.t \in {"str", "None"}

\* whether the handler's return value validates against the response model
ValidResponse(d) ==
    \A fld \in CarrierColumns :
        fld \in DOMAIN d /\ FieldAccepts(CarrierResponse[fld], d[fld])

(***************************************************************************)
(* DataFrames and the contents of the CSV files                            *)
(***************************************************************************)

DataFrame(columns, rows) == [columns |-> columns, rows |-> rows]

\* the module-level df = None
NoneDF == [none |-> TRUE]

\* what pd.read_csv finds: a file that cannot be read or parsed, or a table
Unreadable == [readable |-> FALSE, frame |-> DataFrame({}, <<>>)]

Csv(columns, rows) == [readable |-> TRUE, frame |-> DataFrame(columns, rows)]

\* column sets of the generated files: all carrier columns; data2.csv may lack
\* the MC_NUMBER column
ColumnSets(k) ==
    IF k = 2 THEN {CarrierColumns, CarrierColumns \ {"MC_NUMBER"}} ELSE {CarrierColumns}

CompanyName(k, i) == "Carrier " \o ToString(k) \o "-" \o ToString(i)

\* a row with every cell present and well formed
GoodRow(k, i, dot) ==
    [DOT_NUMBER |-> I(dot), MC_NUMBER |-> S("MC-77"),
     COMPANY_NAME |-> S(CompanyName(k, i)), PHY_STREET |-> S("1 Main St"),
     PHY_CITY |-> S("Springfield"), PHY_STATE |-> S("IL"),
     PHY_ZIP |-> S("62701-0001"), PHONE |-> F(5551234), CELL_PHONE |-> I(5554321),
     TRUCK_UNITS |-> I(12), POWER_UNITS |-> F(7)]

Restrict(row, columns) == [c \in columns |-> row[c]]

\* files of well-formed rows: unreadable, or up to MaxRows rows of any DOT numbers
PlainFiles(k) ==
    {Unreadable} \cup
    UNION {{Csv(cols, [i \in 1..n |-> Restrict(GoodRow(k, i, dots[i]), cols)]) :
               dots \in [1..n -> Dots]} :
           cols \in ColumnSets(k), n \in 0..MaxRows}

\* one-row files whose cells range over absent, numeric and non-numeric values
CellFiles(k) ==
    {Csv(CarrierColumns,
         <<[GoodRow(k, 1, dot) EXCEPT !.TRUCK_UNITS = tu, !.POWER_UNITS = pu,
                                      !.PHONE = ph, !.CELL_PHONE = cp,
                                      !.MC_NUMBER = mc]>>) :
        dot \in Dots, tu \in {NaN, I(12)}, pu \in {NaN, F(7)},
        ph \in {NaN, F(5551234), S("555-1234")},
        cp \in {NaN, I(5559876), S("n/a")},
        mc \in {NaN, S("MC-77")}}

\* the file systems the program is started on: three files of well-formed
\* rows, or data1.csv with one row of arbitrary cells, data2.csv unreadable or
\* one well-formed row, and data3.csv unreadable
FileSystems ==
    {<<a, b, c>> : a \in PlainFiles(1), b \in PlainFiles(2), c \in PlainFiles(3)}
    \cup
    {<<a, b, Unreadable>> :
        a \in CellFiles(1),
        b \in {Unreadable} \cup {Csv(CarrierColumns, <<GoodRow(2, 1, dot)>>) : dot \in Dots}}

(***************************************************************************)
(* Startup: lines 35-66                                                    *)
(***************************************************************************)

RECURSIVE AllRows(_)
\* the rows of the frames, in list order
AllRows(frames) ==
    IF frames = <<>> THEN <<>>
    ELSE Head(frames).rows \o AllRows(Tail(frames))

\* pd.concat over the list reversed: the newest frame first
concat_newest_first(frames) ==
    LET columns == UNION {frames[k].columns : k \in 1..Len(frames)}
        rows == AllRows([k \in 1..Len(frames) |-> frames[Len(frames) + 1 - k]])
    IN  DataFrame(columns,
                  [i \in 1..Len(rows) |->
                      [c \in columns |->
                          IF c \in DOMAIN rows[i] THEN rows[i][c] ELSE NaN]])

\* pd.concat(..., join='inner'): only the columns every frame has
concat_inner_join(frames) ==
    LET columns == {c \in UNION {frames[k].columns : k \in 1..Len(frames)} :
                       \A k \in 1..Len(frames) : c \in frames[k].columns}
        rows == AllRows(frames)
    IN  DataFrame(columns, [i \in 1..Len(rows) |-> [c \in columns |-> rows[i][c]]])

\* pd.concat(dataframes, ignore_index=True): the union of the columns, the
\* rows of the frames in list order, a cell of a column its frame lacks NaN.
\* (The dtype of a column is not modelled: a cell keeps the value it was
\* parsed with, which an int/float upcast leaves equal under ==.)
concat(frames) ==
    LET columns == UNION {frames[k].columns : k \in 1..Len(frames)}
        rows == AllRows(frames)
    IN  DataFrame(columns,
                  [i \in 1..Len(rows) |->
                      [c \in columns |->
                          IF c \in DOMAIN rows[i] THEN rows[i][c] ELSE NaN]])

\* The import of the module begins. df is not bound until the load ends and
\* no request is served before; NoneDF stands for the unbound name.
Init ==
    /\ files \in FileSystems
    /\ pc = "start"
    /\ file = 1
    /\ dataframes = <<>>
    /\ df = NoneDF
    /\ stdout = <<>>
    /\ responses = {}

\* lines 36-43: the startup prints succeed; csv_files and dataframes are set
BeginLoad ==
    /\ pc = "start"
    /\ pc' = "loading"
    /\ file' = 1
    /\ dataframes' = <<>>
    /\ UNCHANGED <<files, df, stdout, responses>>

\* lines 64-66: os.getcwd() or os.listdir('.') raises; the outer handler
\* sets df = None
LoadProcessError ==
    /\ pc = "start"
    /\ df' = NoneDF
    /\ pc' = "serving"
    /\ stdout' = Append(stdout, <<"Error in data loading process", 0>>)
    /\ UNCHANGED <<files, file, dataframes, responses>>

\* lines 47-51: pd.read_csv(file) succeeds, the frame is appended
LoadFile ==
    /\ pc = "loading"
    /\ file <= NumFiles
    /\ files[file].readable
    /\ dataframes' = Append(dataframes, files[file].frame)
    /\ stdout' = Append(stdout, <<"Successfully loaded", file>>)
    /\ file' = file + 1
    /\ UNCHANGED <<files, pc, df, responses>>

\* lines 52-53: pd.read_csv(file) raises, the file is skipped
LoadFileError ==
    /\ pc = "loading"
    /\ file <= NumFiles
    /\ ~files[file].readable
    /\ stdout' = Append(stdout, <<"Error loading", file>>)
    /\ file' = file + 1
    /\ UNCHANGED <<files, pc, dataframes, df, responses>>

\* an empty DataFrame in place of None when nothing was loaded
combined_empty_frame(frames) ==
    IF frames # <<>> THEN concat(frames) ELSE DataFrame({}, <<>>)

\* fail closed: None unless every file was loaded
combined_all_or_nothing(frames) ==
    IF Len(frames) = NumFiles THEN concat(frames) ELSE NoneDF

\* the value lines 56-62 assign to df
combined(frames) ==
    IF frames # <<>> THEN concat(frames) ELSE NoneDF

\* lines 55-62: combine all dataframes
Combine ==
    /\ pc = "loading"
    /\ file > NumFiles
    /\ df' = combined(dataframes)
    /\ pc' = "serving"
    /\ UNCHANGED <<files, file, dataframes, stdout, responses>>

(***************************************************************************)
(* GET /carrier: lines 68-107                                              *)
(***************************************************************************)

\* carrier_dict[key]
getitem(carrier_dict, key) ==
    IF key \in DOMAIN carrier_dict THEN Ok(carrier_dict[key]) ELSE Raise(KeyError(key))

\* cell == dot_number, as df['DOT_NUMBER'] == dot_number compares one cell
CellEquals(cell, dot_number) == cell.t \in {"int", "float"} /\ cell.n = dot_number

\* line 87: df[df['DOT_NUMBER'] == dot_number], the matching rows in table order
filter_rows(table, dot_number) ==
    SelectSeq(table.rows, LAMBDA row : CellEquals(row["DOT_NUMBER"], dot_number))

\* the last matching row in place of the first
iloc_last_to_dict(carrier_data) == carrier_data[Len(carrier_data)]

\* line 93: carrier_data.iloc[0].to_dict()
iloc0_to_dict(carrier_data) == carrier_data[1]

\* the keys lines 96-101 convert, in the order of the statements
ConvertedKeys ==
    <<"DOT_NUMBER", "TRUCK_UNITS", "POWER_UNITS", "PHONE", "CELL_PHONE", "MC_NUMBER">>

\* the right-hand side of the assignment to carrier_dict[key] in lines 96-101
converted(carrier_dict, key) ==
    LET cell == getitem(carrier_dict, key) IN
    IF cell.raised THEN cell
    ELSE CASE key \in {"DOT_NUMBER", "TRUCK_UNITS", "POWER_UNITS"} -> int(cell.value)
           [] key \in {"PHONE", "CELL_PHONE"} -> clean_phone_number(cell.value)
           [] key = "MC_NUMBER" ->
                Ok(IF isna(cell.value) THEN None ELSE S(str(cell.value)))

\* lines 95-103: the conversions in order; the first that raises ends them
clean_and_convert(carrier_dict) ==
    LET failing == {i \in 1..Len(ConvertedKeys) :
                       converted(carrier_dict, ConvertedKeys[i]).raised}
        first == CHOOSE i \in failing : \A j \in failing : i <= j
        keys == {ConvertedKeys[i] : i \in 1..Len(ConvertedKeys)}
    IN  IF failing # {}
        THEN converted(carrier_dict, ConvertedKeys[first])
        ELSE Ok([key \in DOMAIN carrier_dict \cup keys |->
                    IF key \in keys THEN converted(carrier_dict, key).value
                    ELSE carrier_dict[key]])

\* lines 83-103: the body of the try block
try_body(table, dot_number) ==
    IF table = NoneDF
    THEN Raise(HTTPException(500, "Database not initialized"))
    ELSE IF "DOT_NUMBER" \notin table.columns
    THEN Raise(KeyError("DOT_NUMBER"))
    ELSE LET carrier_data == filter_rows(table, dot_number) IN
         IF carrier_data = <<>>
         THEN Raise(HTTPException(404, "Carrier with DOT number "
                                       \o ToString(dot_number) \o " not found"))
         ELSE clean_and_convert(iloc0_to_dict(carrier_data))

\* a fixed detail in place of str(e)
except_Exception_generic(e) == Raise(HTTPException(500, "Internal server error"))

\* lines 105-107: except Exception as e, which an HTTPException raised in
\* the try block is too: raise HTTPException(500, str(e))
except_Exception(e) == Raise(HTTPException(500, StrExc(e)))

\* lines 82-107: the handler. (The print of line 106 is not recorded: stdout
\* holds the lines of the load only.)
get_carrier_by_dot(table, dot_number) ==
    LET r == try_body(table, dot_number) IN
    IF r.raised THEN except_Exception(r.exc) ELSE r

HttpResponse(status, detail, body) == [status |-> status, detail |-> detail, body |-> body]

\* line 68, response_model=CarrierResponse: an HTTPException becomes its status
\* and detail; a returned dict is validated against CarrierResponse and
\* serialized with its fields, and one that does not validate is answered with
\* 500 Internal Server Error
carrier_route(table, dot_number) ==
    LET r == get_carrier_by_dot(table, dot_number) IN
    IF r.raised THEN HttpResponse(r.exc.status, r.exc.detail, <<>>)
    ELSE IF ValidResponse(r.value)
    THEN HttpResponse(200, "", <<Restrict(r.value, CarrierColumns)>>)
    ELSE HttpResponse(500, "Internal Server Error", <<>>)

\* the conversions written into the stored row, as if carrier_dict were a
\* view of the table
df_after_carrier_inplace(table, dot_number) ==
    LET r == try_body(table, dot_number) IN
    IF r.raised THEN table
    ELSE LET first == CHOOSE i \in 1..Len(table.rows) :
                         /\ CellEquals(table.rows[i]["DOT_NUMBER"], dot_number)
                         /\ \A j \in 1..(i - 1) :
                               ~CellEquals(table.rows[j]["DOT_NUMBER"], dot_number)
         IN  DataFrame(table.columns, [table.rows EXCEPT ![first] = r.value])

\* df after a carrier request: lines 87 and 93 build a new frame and a new
\* dict, lines 96-101 assign into that dict, and no statement assigns df
df_after_carrier(table, dot_number) == table

\* lines 109-111
root == HttpResponse(200, "",
          <<[message |-> "Use /carrier?dot_number=XXXX to search for carrier information."]>>)

\* lines 114-116
health_check(table) ==
    HttpResponse(200, "", <<[status |-> "healthy", data_loaded |-> table # NoneDF]>>)

Served(path, dot_number, response) ==
    [path |-> path, dot_number |-> dot_number, response |-> response]

GetCarrier(dot_number) ==
    /\ pc = "serving"
    /\ responses' = responses \cup {Served("/carrier", dot_number, carrier_route(df, dot_number))}
    /\ df' = df_after_carrier(df, dot_number)
    /\ UNCHANGED <<files, pc, file, dataframes, stdout>>

GetRoot ==
    /\ pc = "serving"
    /\ responses' = responses \cup {Served("/", 0, root)}
    /\ UNCHANGED <<files, pc, file, dataframes, df, stdout>>

GetHealth ==
    /\ pc = "serving"
    /\ responses' = responses \cup {Served("/health", 0, health_check(df))}
    /\ UNCHANGED <<files, pc, file, dataframes, df, stdout>>

Next ==
    \/ BeginLoad
    \/ LoadProcessError
    \/ LoadFile
    \/ LoadFileError
    \/ Combine
    \/ \E dot_number \in Dots : GetCarrier(dot_number)
    \/ GetRoot
    \/ GetHealth

Spec == Init /\ [][Next]_vars

(***************************************************************************)
(* Vocabulary of the properties                                            *)
(***************************************************************************)

CarrierServed == {r \in responses : r.path = "/carrier"}

HealthServed == {r \in responses : r.path = "/health"}

\* the sources whose load the startup reported as successful
LoadedSources == {k \in 1..NumFiles : \E i \in 1..Len(stdout) : stdout[i] = <<"Successfully loaded", k>>}

\* the indices of the rows of df whose DOT_NUMBER is dot
Matches(dot) ==
    IF df = NoneDF THEN {}
    ELSE {i \in 1..Len(df.rows) : CellEquals(df.rows[i]["DOT_NUMBER"], dot)}

FirstMatch(dot) == CHOOSE i \in Matches(dot) : \A j \in Matches(dot) : i <= j

IsNumber(cell) == cell.t \in {"int", "float"}

\* a present phone cell that reads as a number
IsPhone(cell) == IsNumber(cell) \/ (cell.t = "str" /\ cell.s \in {ToString(n) : n \in Numbers})

Digits(cell) == IF IsNumber(cell) THEN ToString(cell.n) ELSE cell.s

\* every cell the handler converts is there and converts
Convertible(row) ==
    /\ IsNumber(row["TRUCK_UNITS"]) /\ IsNumber(row["POWER_UNITS"])
    /\ row["PHONE"] = NaN \/ IsPhone(row["PHONE"])
    /\ row["CELL_PHONE"] = NaN \/ IsPhone(row["CELL_PHONE"])
    /\ "MC_NUMBER" \in DOMAIN row

\* the record section 4.1 of the specification prescribes for a row
NormalizedRecord(row) ==
    [fld \in CarrierColumns |->
        CASE fld \in {"DOT_NUMBER", "TRUCK_UNITS", "POWER_UNITS"} -> I(row[fld].n)
          [] fld \in {"PHONE", "CELL_PHONE"} ->
               IF row[fld] = NaN THEN None ELSE S(Digits(row[fld]))
          [] fld = "MC_NUMBER" -> IF row[fld] = NaN THEN None ELSE row[fld]
          [] OTHER -> row[fld]]

\* the text of the failure of the first conversion of the row that fails
ConversionFailureText(row) ==
    CASE row["TRUCK_UNITS"] = NaN -> "cannot convert float NaN to integer"
      [] row["TRUCK_UNITS"] # NaN /\ row["POWER_UNITS"] = NaN ->
           "cannot convert float NaN to integer"
      [] OTHER ->
           IF row["PHONE"] # NaN /\ ~IsPhone(row["PHONE"])
           THEN "could not convert string to float: '" \o row["PHONE"].s \o "'"
           ELSE "could not convert string to float: '" \o row["CELL_PHONE"].s \o "'"

\* a conversion of a cell of the row fails
ConversionFails(row) ==
    \/ row["TRUCK_UNITS"] = NaN
    \/ row["POWER_UNITS"] = NaN
    \/ row["PHONE"] # NaN /\ ~IsPhone(row["PHONE"])
    \/ row["CELL_PHONE"] # NaN /\ ~IsPhone(row["CELL_PHONE"])

(***************************************************************************)
(* Properties                                                              *)
(***************************************************************************)

\* C1: a lookup of a DOT number that no row of the loaded table has is
\* answered 404 (NotFound), never 500.
AbsentDotIsNotFound ==
    \A r \in CarrierServed :
        (df # NoneDF /\ Matches(r.dot_number) = {}) => r.response.status = 404

\* C3: when the table failed to load (no source was loaded), every health
\* check answered so far reports data_loaded false and every carrier lookup
\* answered so far is a 500 without a record.
LoadFailureIsUnavailable ==
    (pc = "serving" /\ LoadedSources = {}) =>
        /\ \A r \in HealthServed : r.response.body[1].data_loaded = FALSE
        /\ \A r \in CarrierServed : r.response.status = 500 /\ r.response.body = <<>>

\* every source failed to load, and a health check and lookups of every DOT
\* number were answered
LoadFailureServed ==
    /\ pc = "serving"
    /\ Len(stdout) = NumFiles
    /\ \A i \in 1..Len(stdout) : stdout[i][1] = "Error loading"
    /\ HealthServed # {}
    /\ \A dot \in Dots : \E r \in CarrierServed : r.dot_number = dot

\* C4: once the load is over, no request changes the table.
TableFixedAfterLoad == [][pc = "serving" => df' = df]_vars

\* a table of several rows has answered a successful lookup whose record
\* differs from the stored row, a failing lookup, a health check and a root call
EveryRequestServed ==
    /\ df # NoneDF
    /\ Len(df.rows) >= 2
    /\ \E r \in CarrierServed :
          /\ r.response.status = 200
          /\ r.response.body[1] # Restrict(df.rows[FirstMatch(r.dot_number)], CarrierColumns)
    /\ \E r \in CarrierServed : r.response.status = 500
    /\ HealthServed # {}
    /\ \E r \in responses : r.path = "/"

\* C5: a lookup is answered from the first row of the table with the DOT
\* number: a success carries that row's company name, and the answer is the
\* one the table cut off after that row gives.
FirstMatchWins ==
    \A r \in CarrierServed :
        Matches(r.dot_number) # {} =>
            LET first == FirstMatch(r.dot_number) IN
            /\ r.response.status = 200 =>
                  r.response.body[1]["COMPANY_NAME"] = df.rows[first]["COMPANY_NAME"]
            /\ r.response =
                  carrier_route(DataFrame(df.columns, SubSeq(df.rows, 1, first)),
                                r.dot_number)

\* a successful lookup of a DOT number that rows of two different sources have
DuplicateDotServed ==
    \E r \in CarrierServed :
        /\ r.response.status = 200
        /\ Cardinality(Matches(r.dot_number)) >= 2
        /\ \E i, j \in Matches(r.dot_number) :
              df.rows[i]["COMPANY_NAME"] # df.rows[j]["COMPANY_NAME"]
        /\ Cardinality(LoadedSources) >= 2

\* the number of rows of the frames before frame j of the list
Offset(frames, j) == Len(AllRows(SubSeq(frames, 1, j - 1)))

RECURSIVE SumRows(_)
SumRows(frames) ==
    IF frames = <<>> THEN 0 ELSE Len(Head(frames).rows) + SumRows(Tail(frames))

\* C6: the table has as many rows as the loaded frames together, and row i
\* of the j-th loaded frame is its row number (rows of earlier frames) + i.
ConcatKeepsOrder ==
    (pc = "serving" /\ df # NoneDF) =>
        /\ Len(df.rows) = SumRows(dataframes)
        /\ \A j \in 1..Len(dataframes) : \A i \in 1..Len(dataframes[j].rows) :
              LET row == dataframes[j].rows[i]
                  at == Offset(dataframes, j) + i
              IN  at <= Len(df.rows) /\ Restrict(df.rows[at], DOMAIN row) = row

\* two sources of two rows each were combined
TwoSourcesCombined ==
    /\ pc = "serving"
    /\ Len(dataframes) = 2
    /\ Len(dataframes[1].rows) = 2 /\ Len(dataframes[2].rows) = 2
    /\ df # NoneDF
    /\ Len(df.rows) = 4

\* the rows of the sources reported as loaded, in the order of csv_files
SourceRows ==
    AllRows([k \in 1..NumFiles |->
                IF k \in LoadedSources THEN files[k].frame ELSE DataFrame({}, <<>>)])

\* C10: a file that fails to load is skipped and the later files are still
\* loaded; the table is the rows of the loaded sources in listed order; and
\* data_loaded is true exactly when at least one source was loaded.
PartialLoadPolicy ==
    pc = "serving" =>
        /\ (df # NoneDF) <=> (LoadedSources # {})
        /\ \A r \in HealthServed : r.response.body[1].data_loaded = (LoadedSources # {})
        /\ (\A i \in 1..Len(stdout) : stdout[i][1] # "Error in data loading process")
              => LoadedSources = {k \in 1..NumFiles : files[k].readable}
        /\ df # NoneDF =>
              /\ Len(df.rows) = Len(SourceRows)
              /\ \A i \in 1..Len(SourceRows) :
                    Restrict(df.rows[i], DOMAIN SourceRows[i]) = SourceRows[i]

\* data1.csv failed, data2.csv and data3.csv were loaded with rows, and a
\* health check was answered
PartialLoadServed ==
    /\ pc = "serving"
    /\ stdout[1] = <<"Error loading", 1>>
    /\ LoadedSources = {2, 3}
    /\ files[2].frame.rows # <<>> /\ files[3].frame.rows # <<>>
    /\ HealthServed # {}

\* two of the loaded frames have different column sets
ColumnsDiffer ==
    \E j, k \in 1..Len(dataframes) : dataframes[j].columns # dataframes[k].columns

\* C9: loaded sources with different column sets make the load fail: the
\* table is unavailable and data_loaded is false.
ColumnMismatchIsLoadError ==
    (pc = "serving" /\ ColumnsDiffer) =>
        /\ df = NoneDF
        /\ \A r \in HealthServed : r.response.body[1].data_loaded = FALSE

\* C9 as amended: loaded sources with different column sets are combined:
\* the table is available with the union of the columns, the rows of a
\* source have NaN in the columns that source lacks, and data_loaded is true.
ColumnMismatchIsFilled ==
    (pc = "serving" /\ ColumnsDiffer) =>
        /\ df # NoneDF
        /\ df.columns = UNION {dataframes[j].columns : j \in 1..Len(dataframes)}
        /\ \A j \in 1..Len(dataframes) : \A i \in 1..Len(dataframes[j].rows) :
              \A c \in df.columns \ dataframes[j].columns :
                  df.rows[Offset(dataframes, j) + i][c] = NaN
        /\ \A r \in HealthServed : r.response.body[1].data_loaded = TRUE

\* a source with all the columns and a source without MC_NUMBER, each with
\* rows, were combined, and a health check was answered
ColumnMismatchServed ==
    /\ pc = "serving"
    /\ ColumnsDiffer
    /\ \A j \in 1..Len(dataframes) : dataframes[j].rows # <<>>
    /\ HealthServed # {}

\* the first row of the table with the DOT number of answered lookup r
MatchedRow(r) == df.rows[FirstMatch(r.dot_number)]

\* no two answers to the same lookup differ
RepeatedLookupsAgree ==
    \A r1, r2 \in CarrierServed : r1.dot_number = r2.dot_number => r1 = r2

\* C2: a lookup of a DOT number that is in the table succeeds with the
\* normalized row of that DOT number, and every repetition answers the same.
PresentDotSucceeds ==
    /\ \A r \in CarrierServed :
          Matches(r.dot_number) # {} =>
              /\ r.response.status = 200
              /\ r.response.body = <<NormalizedRecord(MatchedRow(r))>>
    /\ RepeatedLookupsAgree

\* C2 as amended: a lookup of a DOT number that is in the table succeeds with
\* the normalized first row of that DOT number when every cell the handler
\* converts is there and converts and the record validates against
\* CarrierResponse (PHONE is present); otherwise it is answered 500; and
\* every repetition answers the same.
PresentDotSucceedsWhenConvertible ==
    /\ \A r \in CarrierServed :
          Matches(r.dot_number) # {} =>
              IF Convertible(MatchedRow(r)) /\ MatchedRow(r)["PHONE"] # NaN
              THEN r.response = HttpResponse(200, "", <<NormalizedRecord(MatchedRow(r))>>)
              ELSE r.response.status = 500 /\ r.response.body = <<>>
    /\ RepeatedLookupsAgree

\* a lookup of a row with a float PHONE, an integer CELL_PHONE, a float
\* POWER_UNITS and an absent MC_NUMBER succeeded, and a lookup of another
\* DOT number was answered in between
ConvertedRowServed ==
    /\ \E r \in CarrierServed :
          /\ Matches(r.dot_number) # {}
          /\ r.response.status = 200
          /\ MatchedRow(r)["PHONE"].t = "float"
          /\ MatchedRow(r)["CELL_PHONE"].t = "int"
          /\ MatchedRow(r)["POWER_UNITS"].t = "float"
          /\ MatchedRow(r)["MC_NUMBER"] = NaN
    /\ Cardinality(CarrierServed) >= 2

OptionalFields == {"PHONE", "CELL_PHONE", "MC_NUMBER"}

\* C7: a lookup of a row whose PHONE, CELL_PHONE or MC_NUMBER is absent, and
\* whose other cells convert, succeeds with None in that field.
AbsentOptionalIsNone ==
    \A r \in CarrierServed :
        (Matches(r.dot_number) # {} /\ Convertible(MatchedRow(r))) =>
            \A fld \in OptionalFields :
                MatchedRow(r)[fld] = NaN =>
                    /\ r.response.status = 200
                    /\ r.response.body[1][fld] = None

\* C8: when a conversion of a cell of the matched row fails, the lookup is
\* answered 500 with a detail that is not the text of the failure.
ConversionFailureIsGeneric ==
    \A r \in CarrierServed :
        (Matches(r.dot_number) # {} /\ ConversionFails(MatchedRow(r))) =>
            /\ r.response.status = 500
            /\ r.response.detail # ConversionFailureText(MatchedRow(r))

\* C8 as amended: when a conversion of a cell of the matched row fails, the
\* lookup is answered 500 with the text of the failure, str(e), as detail.
ConversionFailureIsExposed ==
    \A r \in CarrierServed :
        (Matches(r.dot_number) # {} /\ ConversionFails(MatchedRow(r))) =>
            /\ r.response.status = 500
            /\ r.response.detail = ConversionFailureText(MatchedRow(r))

\* a lookup of a row whose PHONE is not numeric and whose other cells convert
\* was answered
ConversionFailureServed ==
    \E r \in CarrierServed :
        /\ Matches(r.dot_number) # {}
        /\ MatchedRow(r)["TRUCK_UNITS"] # NaN /\ MatchedRow(r)["POWER_UNITS"] # NaN
        /\ MatchedRow(r)["PHONE"].t = "str"
        /\ MatchedRow(r)["CELL_PHONE"] = NaN
        /\ r.response.status = 500

====
